---------------------------- MODULE Spec2Model ----------------------------
(***************************************************************************)
(* Authorization and ownership model of the athlete/coach backend.         *)
(*                                                                         *)
(* The database is five collections (users, performance records,           *)
(* anthropometric measurements, health records, reports).  A route         *)
(* handler is an operator from the database and the request to its         *)
(* outcome: the HTTP response and the database it leaves.  A writing       *)
(* route (POST, PUT, DELETE) is an action that installs the outcome of     *)
(* its handler; a reading route (GET) changes no state and is used as an   *)
(* operator.                                                               *)
(*                                                                         *)
(* Documents are reduced to the fields the ownership rules read or write:  *)
(* role, professionalId and email of a user; userId and professionalId of  *)
(* a record; shared and accessCode of a report.  Field values that only    *)
(* pass through the format checks of request validation (dates, floats,    *)
(* names) are not represented: the requests of the model are those whose   *)
(* field values pass these checks, except where a handler is modelled      *)
(* with its validators (POST /auth/register, the password lengths of       *)
(* POST /users/patients).                                                  *)
(***************************************************************************)
EXTENDS Integers, FiniteSets, Sequences, Bags, TLC

VARIABLES users, nextUser, performance, anthropometric, health, reports,
          nextRec, resp, inflight, clock, ticks, tokens

vars == <<users, nextUser, performance, anthropometric, health, reports,
          nextRec, resp, inflight, clock, ticks, tokens>>

(***************************************************************************)
(* Bounds of the model.                                                    *)
(***************************************************************************)
\* users POST /auth/register and POST /users/patients may create
MaxUsers == 3
\* distinct email addresses of the requests
MaxEmails == 3
\* records the POST handlers may create
MaxRecs == 1
\* values the access code generator may return
MaxCodes == 1
\* requests in flight at the same time
MaxInflight == 2
\* times the clock advances
MaxTicks == 3
\* successful uses counted for a refresh token
MaxUses == 2

(***************************************************************************)
(* Identifiers.  ObjectIds are positive integers; NoId is an absent one    *)
(* (undefined field, key not in the body, request without a bearer         *)
(* token), Malformed a string that is not 24 hex digits.                   *)
(***************************************************************************)
NoId == 0
Malformed == -1
UserIds == 1..MaxUsers
Emails == 1..MaxEmails
NoEmail == 0
AccessCodes == 1..MaxCodes
NoCode == 0

Roles == {"athlete", "professional"}

(***************************************************************************)
(* Password length limits of the request validator and of the schema.      *)
(***************************************************************************)
PatientMinPassword == 6
SchemaMinPassword == 8

(***************************************************************************)
(* Outcome of a handler: the response (status, error.code or, where the    *)
(* body has no code, error.message, and the id of the document the         *)
(* response carries) and the database after the request.  Respond is the   *)
(* outcome of a handler that answers without writing.                      *)
(***************************************************************************)
Respond(status, code, id) ==
  [status |-> status, code |-> code, id |-> id,
   users |-> users, nextUser |-> nextUser, performance |-> performance,
   anthropometric |-> anthropometric, health |-> health,
   reports |-> reports, nextRec |-> nextRec]

\* The outcome leaves every collection as it is.
NoWrite(outcome) ==
  /\ outcome.users = users
  /\ outcome.performance = performance
  /\ outcome.anthropometric = anthropometric
  /\ outcome.health = health
  /\ outcome.reports = reports

Remove(collection, id) ==
  [x \in DOMAIN collection \ {id} |-> collection[x]]

(***************************************************************************)
(* Authorization guard.  auth resolves the bearer token to a live user     *)
(* record; requireProfessional admits only the professional role.          *)
(***************************************************************************)
Authenticated(caller) == caller \in DOMAIN users

RequireProfessional(caller) == users[caller].role = "professional"

\* Status the gates of a route answer with, 0 when the request passes them.
GateStatus(caller, professionalOnly) ==
  IF ~Authenticated(caller) THEN 401
  ELSE IF professionalOnly /\ ~RequireProfessional(caller) THEN 403
  ELSE 0

GateCode(status) == IF status = 401 THEN "UNAUTHORIZED" ELSE "FORBIDDEN"

\* A route: its gates run in order and short-circuit, then the handler.
Route(caller, professionalOnly, handler) ==
  IF GateStatus(caller, professionalOnly) # 0
  THEN Respond(GateStatus(caller, professionalOnly),
               GateCode(GateStatus(caller, professionalOnly)), NoId)
  ELSE handler

(***************************************************************************)
(* Email strings.  A positive number is an address written in lower case,  *)
(* its negative the same address with upper-case letters in it.  The       *)
(* schema's lowercase: true is a setter: it runs on the value a document   *)
(* is given and on the value a query filters on.                           *)
(***************************************************************************)
Uppercase(email) == IF email > 0 THEN -email ELSE email

Lowercase(email) == IF email < 0 THEN -email ELSE email

(***************************************************************************)
(* User.findOne({ email })                                                 *)
(***************************************************************************)
EmailInUse(email) ==
  \E u \in DOMAIN users : users[u].email = Lowercase(email)

(***************************************************************************)
(* User.findOne({ _id: value, role: 'professional' }), the lookup of the   *)
(* professionalId validator of POST /auth/register.                        *)
(***************************************************************************)
AnyUserExists(value) == value \in DOMAIN users

ProfessionalExists(value) ==
  value \in DOMAIN users /\ users[value].role = "professional"

(***************************************************************************)
(* User.findOne({ _id: id, role: role, professionalId: req.user._id })     *)
(***************************************************************************)
FindAssignedUser(id, role, caller) ==
  /\ id \in DOMAIN users
  /\ users[id].role = role
  /\ users[id].professionalId = caller

AthleteRecord(email, professionalId) ==
  [role |-> "athlete", professionalId |-> professionalId,
   email |-> Lowercase(email)]

ProfessionalRecord(email) ==
  [role |-> "professional", professionalId |-> NoId,
   email |-> Lowercase(email)]

(***************************************************************************)
(* POST /auth/register                                                     *)
(*                                                                         *)
(* body.role            the role string, possibly outside the enum         *)
(* body.email           the email                                          *)
(* body.professionalId  NoId when missing, Malformed, or an ObjectId       *)
(* body.athleteFields   gender, age and country are present and valid      *)
(* body.professionalFields  specialization, licenseNumber and              *)
(*                      yearsOfExperience are present and valid            *)
(***************************************************************************)
RegisterBodies ==
  [role : Roles \cup {"admin"},
   email : Emails,
   professionalId : {NoId, Malformed} \cup UserIds,
   athleteFields : BOOLEAN,
   professionalFields : BOOLEAN]

ProfessionalIdUnchecked(value) ==
  /\ value # NoId
  /\ value # Malformed
  /\ AnyUserExists(value)

\* check('professionalId'): notEmpty, 24 hex digits, an existing professional
ProfessionalIdValid(value) ==
  /\ value # NoId
  /\ value # Malformed
  /\ ProfessionalExists(value)

RegisterValidUnconditional(body) ==
  /\ body.role \in Roles
  /\ body.athleteFields /\ ProfessionalIdValid(body.professionalId)
  /\ body.role = "professional" => body.professionalFields

\* The validator chain; .if(check('role').equals(...)) makes the athlete
\* and the professional checks conditional on the role.
RegisterValid(body) ==
  /\ body.role \in Roles
  /\ body.role = "athlete" =>
       body.athleteFields /\ ProfessionalIdValid(body.professionalId)
  /\ body.role = "professional" => body.professionalFields

Register(body) ==
  IF ~RegisterValid(body)
  THEN Respond(400, "Validation failed", NoId)
  ELSE IF EmailInUse(body.email)
  THEN Respond(400, "User already exists", NoId)
  ELSE [Respond(201, "OK", nextUser) EXCEPT
          !.users = users @@ (nextUser :>
             IF body.role = "athlete"
             THEN AthleteRecord(body.email, body.professionalId)
             ELSE ProfessionalRecord(body.email)),
          !.nextUser = nextUser + 1]

(***************************************************************************)
(* POST /users/patients                                                    *)
(***************************************************************************)
PatientBodies == [email : Emails, passwordLength : {5, 7, 8}]

CreatePatientHandler(caller, body) ==
  IF body.passwordLength < PatientMinPassword
  THEN Respond(400, "VALIDATION_ERROR", NoId)
  ELSE IF EmailInUse(body.email)
  THEN Respond(400, "EMAIL_IN_USE", NoId)
  ELSE IF body.passwordLength < SchemaMinPassword
  THEN \* patient.save() rejects the password; the catch answers 500
       Respond(500, "INTERNAL_SERVER_ERROR", NoId)
  ELSE [Respond(201, "OK", nextUser) EXCEPT
          !.users = users @@ (nextUser :> AthleteRecord(body.email, caller)),
          !.nextUser = nextUser + 1]

CreatePatient(caller, body) ==
  Route(caller, TRUE, CreatePatientHandler(caller, body))

(***************************************************************************)
(* Bodies of PUT /users/profile and PUT /users/patients/:id.  A key is in  *)
(* the body when its value is not the absent one; body.name stands for     *)
(* the keys name, gender, age and country.                                 *)
(***************************************************************************)
UserUpdateBodies ==
  [name : BOOLEAN,
   email : {NoEmail} \cup Emails,
   role : {"absent", "professional"},
   professionalId : {NoId, 1}]

\* Object.keys(req.body)
UserUpdateKeys(body) ==
  {k \in {"name"} : body.name}
    \cup {k \in {"email"} : body.email # NoEmail}
    \cup {k \in {"role"} : body.role # "absent"}
    \cup {k \in {"professionalId"} : body.professionalId # NoId}

ProfileAllowedUpdates == {"name", "gender", "age", "country", "settings"}

PatientAllowedUpdates ==
  {"name", "email", "gender", "age", "country", "sport", "position"}

\* updates.forEach(update => { user[update] = req.body[update] })
ApplyUserUpdates(user, body) ==
  [role |-> IF body.role # "absent" THEN body.role ELSE user.role,
   professionalId |-> IF body.professionalId # NoId
                      THEN body.professionalId ELSE user.professionalId,
   email |-> IF body.email # NoEmail
             THEN Lowercase(body.email) ELSE user.email]

\* The unique index on email rejects a save that would duplicate one.
EmailHeldByOther(id, email) ==
  \E u \in DOMAIN users : u # id /\ users[u].email = email

(***************************************************************************)
(* PUT /users/profile                                                      *)
(***************************************************************************)
UpdateProfileHandler(caller, body) ==
  IF ~(UserUpdateKeys(body) \subseteq ProfileAllowedUpdates)
  THEN Respond(400, "INVALID_UPDATE", NoId)
  ELSE [Respond(200, "OK", caller) EXCEPT
          !.users = [users EXCEPT ![caller] = ApplyUserUpdates(@, body)]]

UpdateProfile(caller, body) ==
  Route(caller, FALSE, UpdateProfileHandler(caller, body))

(***************************************************************************)
(* PUT /users/patients/:id                                                 *)
(***************************************************************************)
\* The handler without the check of the keys.
UpdatePatientHandlerAnyKey(caller, id, body) ==
  IF ~FindAssignedUser(id, "athlete", caller)
  THEN Respond(404, "NOT_FOUND", NoId)
  ELSE [Respond(200, "OK", id) EXCEPT
          !.users = [users EXCEPT ![id] = ApplyUserUpdates(@, body)]]

UpdatePatientHandler(caller, id, body) ==
  IF ~FindAssignedUser(id, "athlete", caller)
  THEN Respond(404, "NOT_FOUND", NoId)
  ELSE IF ~(UserUpdateKeys(body) \subseteq PatientAllowedUpdates)
  THEN Respond(400, "INVALID_UPDATE", NoId)
  ELSE IF EmailHeldByOther(id, ApplyUserUpdates(users[id], body).email)
  THEN \* patient.save() fails on the unique index; the catch answers 500
       Respond(500, "INTERNAL_SERVER_ERROR", NoId)
  ELSE [Respond(200, "OK", id) EXCEPT
          !.users = [users EXCEPT ![id] = ApplyUserUpdates(@, body)]]

UpdatePatient(caller, id, body) ==
  Route(caller, TRUE, UpdatePatientHandler(caller, id, body))

(***************************************************************************)
(* DELETE /users/patients/:id: the patient and the patient's               *)
(* anthropometric, health and performance records (not the reports).       *)
(***************************************************************************)
\* Model.deleteMany({ userId: patient._id })
DeleteManyByUser(collection, userId) ==
  [x \in {y \in DOMAIN collection : collection[y].userId # userId}
     |-> collection[x]]

\* A cascade that takes the patient's reports too.
DeletePatientWithReports(caller, id) ==
  IF ~FindAssignedUser(id, "athlete", caller)
  THEN Respond(404, "NOT_FOUND", NoId)
  ELSE [Respond(200, "OK", NoId) EXCEPT
          !.anthropometric = DeleteManyByUser(anthropometric, id),
          !.health = DeleteManyByUser(health, id),
          !.performance = DeleteManyByUser(performance, id),
          !.reports = DeleteManyByUser(reports, id),
          !.users = Remove(users, id)]

DeletePatientHandler(caller, id) ==
  IF ~FindAssignedUser(id, "athlete", caller)
  THEN Respond(404, "NOT_FOUND", NoId)
  ELSE [Respond(200, "OK", NoId) EXCEPT
          !.anthropometric = DeleteManyByUser(anthropometric, id),
          !.health = DeleteManyByUser(health, id),
          !.performance = DeleteManyByUser(performance, id),
          !.users = Remove(users, id)]

DeletePatient(caller, id) ==
  Route(caller, TRUE, DeletePatientHandler(caller, id))

(***************************************************************************)
(* GET /users/patients and GET /users/patients/:id.  The data of a         *)
(* response is the set of the ids of the documents it carries.             *)
(***************************************************************************)
Found(ids) == [status |-> 200, data |-> ids]

NotFound == [status |-> 404, data |-> {}]

\* A reading route: the gates, then the query.
ReadRoute(caller, professionalOnly, response) ==
  IF GateStatus(caller, professionalOnly) # 0
  THEN [status |-> GateStatus(caller, professionalOnly), data |-> {}]
  ELSE response

ListPatients(caller) ==
  ReadRoute(caller, TRUE,
    Found({u \in DOMAIN users :
             users[u].professionalId = caller /\ users[u].role = "athlete"}))

GetPatient(caller, id) ==
  ReadRoute(caller, TRUE,
    IF FindAssignedUser(id, "athlete", caller) THEN Found({id}) ELSE NotFound)


(***************************************************************************)
(* Measurement records.  The ids of the records are ObjectIds too; the     *)
(* requests name the ids the collections may have issued (an id of a       *)
(* collection is the id of no document of another, and stays without       *)
(* document once its document is deleted).                                 *)
(***************************************************************************)
PopulationIds == 1..4
RecIds == 1..(MaxRecs + 1)

\* Bodies of POST and PUT on /performance and /measurements/anthropometric:
\* the keys userId and professionalId, NoId when the key is not in the body.
MeasurementBodies ==
  [userId : {NoId, 3, 4}, professionalId : {NoId, 2}]

\* Bodies of POST: body('userId').isMongoId() wants the key.
CreateBodies == {body \in MeasurementBodies : body.userId # NoId}

StampedByBody(body, caller) ==
  [userId |-> body.userId,
   professionalId |-> IF body.professionalId # NoId
                      THEN body.professionalId ELSE caller]

\* new Model({ ...req.body, professionalId: req.user._id })
Stamped(body, caller) ==
  [userId |-> body.userId, professionalId |-> caller]

\* updates.forEach(update => { record[update] = req.body[update] })
ApplyRecordUpdates(record, body) ==
  [userId |-> IF body.userId # NoId THEN body.userId ELSE record.userId,
   professionalId |-> IF body.professionalId # NoId
                      THEN body.professionalId ELSE record.professionalId]

FindAnyById(collection, id, caller) == id \in DOMAIN collection

\* Model.findOne({ _id: id, professionalId: req.user._id })
FindByProfessional(collection, id, caller) ==
  id \in DOMAIN collection /\ collection[id].professionalId = caller

(***************************************************************************)
(* POST, PUT and DELETE on /performance                                    *)
(***************************************************************************)
CreatePerformanceHandler(caller, body) ==
  IF ~FindAssignedUser(body.userId, "athlete", caller)
  THEN Respond(404, "NOT_FOUND", NoId)
  ELSE [Respond(201, "OK", nextRec) EXCEPT
          !.performance = performance @@ (nextRec :> Stamped(body, caller)),
          !.nextRec = nextRec + 1]

CreatePerformance(caller, body) ==
  Route(caller, TRUE, CreatePerformanceHandler(caller, body))

UpdatePerformanceHandler(caller, id, body) ==
  IF ~FindByProfessional(performance, id, caller)
  THEN Respond(404, "NOT_FOUND", NoId)
  ELSE [Respond(200, "OK", id) EXCEPT
          !.performance =
             [performance EXCEPT ![id] = ApplyRecordUpdates(@, body)]]

UpdatePerformanceNoRoleGate(caller, id, body) ==
  Route(caller, FALSE, UpdatePerformanceHandler(caller, id, body))

UpdatePerformance(caller, id, body) ==
  Route(caller, TRUE, UpdatePerformanceHandler(caller, id, body))

DeletePerformanceHandler(caller, id) ==
  IF ~FindByProfessional(performance, id, caller)
  THEN Respond(404, "NOT_FOUND", NoId)
  ELSE [Respond(200, "OK", id) EXCEPT !.performance = Remove(performance, id)]

DeletePerformance(caller, id) ==
  Route(caller, TRUE, DeletePerformanceHandler(caller, id))

(***************************************************************************)
(* GET /performance and GET /performance/:id.  userId is the query         *)
(* parameter, NoId when it is not given.                                   *)
(***************************************************************************)
PerformanceQuery(caller, userId) ==
  IF users[caller].role = "professional"
  THEN {r \in DOMAIN performance :
          /\ performance[r].professionalId = caller
          /\ userId # NoId => performance[r].userId = userId}
  ELSE {r \in DOMAIN performance : performance[r].userId = caller}

ListPerformance(caller, userId) ==
  ReadRoute(caller, FALSE, Found(PerformanceQuery(caller, userId)))

GetPerformance(caller, id) ==
  ReadRoute(caller, FALSE,
    IF id \in PerformanceQuery(caller, NoId) THEN Found({id}) ELSE NotFound)

(***************************************************************************)
(* POST, PUT and DELETE on /measurements/anthropometric                    *)
(***************************************************************************)
CreateAnthropometricHandler(caller, body) ==
  IF ~FindAssignedUser(body.userId, "athlete", caller)
  THEN Respond(404, "NOT_FOUND", NoId)
  ELSE [Respond(201, "OK", nextRec) EXCEPT
          !.anthropometric =
             anthropometric @@ (nextRec :> Stamped(body, caller)),
          !.nextRec = nextRec + 1]

CreateAnthropometric(caller, body) ==
  Route(caller, TRUE, CreateAnthropometricHandler(caller, body))

UpdateAnthropometricHandler(caller, id, body) ==
  IF ~FindByProfessional(anthropometric, id, caller)
  THEN Respond(404, "NOT_FOUND", NoId)
  ELSE [Respond(200, "OK", id) EXCEPT
          !.anthropometric =
             [anthropometric EXCEPT ![id] = ApplyRecordUpdates(@, body)]]

UpdateAnthropometric(caller, id, body) ==
  Route(caller, TRUE, UpdateAnthropometricHandler(caller, id, body))

DeleteAnthropometricHandler(caller, id) ==
  IF ~FindByProfessional(anthropometric, id, caller)
  THEN Respond(404, "NOT_FOUND", NoId)
  ELSE [Respond(200, "OK", id) EXCEPT
          !.anthropometric = Remove(anthropometric, id)]

DeleteAnthropometric(caller, id) ==
  Route(caller, TRUE, DeleteAnthropometricHandler(caller, id))

(***************************************************************************)
(* GET /measurements/anthropometric and /measurements/anthropometric/:id.  *)
(* The handlers filter on athleteId, which is no path of the schema (the   *)
(* athlete of a measurement is its userId).  What the filter does depends  *)
(* on the strictQuery option of the Mongoose build: when it is on, the     *)
(* unknown path is removed from the filter; when it is off, the path is    *)
(* sent to the database, where no document has it.                         *)
(***************************************************************************)
\* The documents that match { athleteId: value }
MatchAthleteId(value, strictQuery) ==
  IF strictQuery THEN DOMAIN anthropometric ELSE {}

AnthropometricQuery(caller, athleteId, strictQuery) ==
  IF users[caller].role = "professional"
  THEN {m \in DOMAIN anthropometric :
          /\ anthropometric[m].professionalId = caller
          /\ athleteId # NoId => m \in MatchAthleteId(athleteId, strictQuery)}
  ELSE MatchAthleteId(caller, strictQuery)

ListAnthropometric(caller, athleteId, strictQuery) ==
  ReadRoute(caller, FALSE,
    Found(AnthropometricQuery(caller, athleteId, strictQuery)))

GetAnthropometric(caller, id, strictQuery) ==
  ReadRoute(caller, FALSE,
    IF id \in AnthropometricQuery(caller, NoId, strictQuery)
    THEN Found({id}) ELSE NotFound)

(***************************************************************************)
(* CRUD /health: any authenticated caller, records scoped to the caller.   *)
(* The body may carry a userId key (NoId when it does not).                *)
(***************************************************************************)
HealthBodies == [userId : {NoId, 4}]

\* Model.findOne({ _id: id, userId: req.user._id })
FindByUser(collection, id, caller) ==
  id \in DOMAIN collection /\ collection[id].userId = caller

\* new HealthMetrics({ ...req.body, userId: req.user._id })
CreateHealthHandler(caller, body) ==
  [Respond(201, "OK", nextRec) EXCEPT
     !.health = health @@ (nextRec :> [userId |-> caller]),
     !.nextRec = nextRec + 1]

CreateHealth(caller, body) ==
  Route(caller, FALSE, CreateHealthHandler(caller, body))

UpdateHealthHandler(caller, id, body) ==
  IF ~FindByUser(health, id, caller)
  THEN Respond(404, "NOT_FOUND", NoId)
  ELSE [Respond(200, "OK", id) EXCEPT
          !.health =
             [health EXCEPT ![id] =
                [userId |-> IF body.userId # NoId THEN body.userId
                            ELSE @.userId]]]

UpdateHealth(caller, id, body) ==
  Route(caller, FALSE, UpdateHealthHandler(caller, id, body))

DeleteHealthHandler(caller, id) ==
  IF ~FindByUser(health, id, caller)
  THEN Respond(404, "NOT_FOUND", NoId)
  ELSE [Respond(200, "OK", id) EXCEPT !.health = Remove(health, id)]

DeleteHealth(caller, id) ==
  Route(caller, FALSE, DeleteHealthHandler(caller, id))

ListHealth(caller) ==
  ReadRoute(caller, FALSE,
    Found({h \in DOMAIN health : health[h].userId = caller}))

GetHealth(caller, id) ==
  ReadRoute(caller, FALSE,
    IF FindByUser(health, id, caller) THEN Found({id}) ELSE NotFound)

(***************************************************************************)
(* Reports.                                                                *)
(***************************************************************************)
ReportBodies == [userId : {3, 4}, shared : BOOLEAN]

\* reportSchema.pre('save'); code is what the random generator returns
ReportPreSave(report, code) ==
  IF report.shared /\ report.accessCode = NoCode
  THEN [report EXCEPT !.accessCode = code]
  ELSE report

\* A collection without the index.
NoCodeIndex(id, code) == FALSE

\* The unique sparse index on accessCode rejects a duplicate of a code.
CodeHeldByOther(id, code) ==
  /\ code # NoCode
  /\ \E r \in DOMAIN reports : r # id /\ reports[r].accessCode = code

\* The role of the user lookup of POST /reports.
ReportUserRole == "user"

(***************************************************************************)
(* POST /reports, POST /reports/:id/share, DELETE /reports/:id             *)
(***************************************************************************)
CreateReportHandler(caller, body, code) ==
  IF ~FindAssignedUser(body.userId, ReportUserRole, caller)
  THEN Respond(404, "NOT_FOUND", NoId)
  ELSE LET report == ReportPreSave(
                       [userId |-> body.userId, professionalId |-> caller,
                        shared |-> body.shared, accessCode |-> NoCode],
                       code)
       IN  IF CodeHeldByOther(nextRec, report.accessCode)
           THEN Respond(500, "INTERNAL_SERVER_ERROR", NoId)
           ELSE [Respond(201, "OK", nextRec) EXCEPT
                   !.reports = reports @@ (nextRec :> report),
                   !.nextRec = nextRec + 1]

CreateReport(caller, body, code) ==
  Route(caller, TRUE, CreateReportHandler(caller, body, code))

ShareReportHandler(caller, id, code) ==
  IF ~FindByProfessional(reports, id, caller)
  THEN Respond(404, "NOT_FOUND", NoId)
  ELSE LET report == ReportPreSave([reports[id] EXCEPT !.shared = TRUE], code)
       IN  IF CodeHeldByOther(id, report.accessCode)
           THEN Respond(500, "INTERNAL_SERVER_ERROR", NoId)
           ELSE [Respond(200, "OK", id) EXCEPT
                   !.reports = [reports EXCEPT ![id] = report]]

ShareReport(caller, id, code) ==
  Route(caller, TRUE, ShareReportHandler(caller, id, code))

DeleteReportHandler(caller, id) ==
  IF ~FindByProfessional(reports, id, caller)
  THEN Respond(404, "NOT_FOUND", NoId)
  ELSE [Respond(200, "OK", id) EXCEPT !.reports = Remove(reports, id)]

DeleteReport(caller, id) ==
  Route(caller, TRUE, DeleteReportHandler(caller, id))

(***************************************************************************)
(* GET /reports, GET /reports/:id, GET /reports/shared/:accessCode         *)
(***************************************************************************)
ReportQueryUnscoped(caller) ==
  IF users[caller].role = "professional"
  THEN {r \in DOMAIN reports : reports[r].professionalId = caller}
  ELSE DOMAIN reports

ReportQuery(caller) ==
  IF users[caller].role = "professional"
  THEN {r \in DOMAIN reports : reports[r].professionalId = caller}
  ELSE {r \in DOMAIN reports : reports[r].userId = caller}

ListReports(caller) == ReadRoute(caller, FALSE, Found(ReportQuery(caller)))

GetReport(caller, id) ==
  ReadRoute(caller, FALSE,
    IF id \in ReportQuery(caller) THEN Found({id}) ELSE NotFound)

\* The query without its accessCode condition.
GetSharedReportAnyCode(accessCode) ==
  LET found == {r \in DOMAIN reports : reports[r].shared}
  IN  IF found = {} THEN NotFound ELSE Found(found)

GetSharedReport(accessCode) ==
  LET found == {r \in DOMAIN reports :
                  reports[r].accessCode = accessCode /\ reports[r].shared}
  IN  IF found = {} THEN NotFound ELSE Found(found)

(***************************************************************************)
(* A writing route as an action: the outcome of the handler becomes the    *)
(* database, and resp the response.  The creations stop at the bounds.     *)
(***************************************************************************)
Handle(op, outcome) ==
  /\ IF outcome.nextUser = nextUser THEN TRUE
     ELSE outcome.nextUser <= MaxUsers + 1
  /\ IF outcome.nextRec = nextRec THEN TRUE
     ELSE outcome.nextRec <= MaxRecs + 2
  /\ users' = outcome.users
  /\ nextUser' = outcome.nextUser
  /\ performance' = outcome.performance
  /\ anthropometric' = outcome.anthropometric
  /\ health' = outcome.health
  /\ reports' = outcome.reports
  /\ nextRec' = outcome.nextRec
  /\ resp' = [op |-> op, status |-> outcome.status]
  /\ UNCHANGED <<inflight, clock, ticks, tokens>>

NoResponse == [op |-> "none", status |-> 0]

EmptyCollection == [x \in {} |-> NoId]

\* The clients hold no token.
NoTokens == [t \in {} |-> 0]

\* No request is between two of its database operations.
NoRequests == EmptyBag

(***************************************************************************)
(* The user-management specification: an empty database, then any          *)
(* sequence of register, create-patient, profile update, patient update    *)
(* and patient delete requests.                                            *)
(***************************************************************************)
Callers == {NoId} \cup UserIds

InitUsers ==
  /\ users = EmptyCollection
  /\ nextUser = 1
  /\ performance = EmptyCollection
  /\ anthropometric = EmptyCollection
  /\ health = EmptyCollection
  /\ reports = EmptyCollection
  /\ nextRec = 1
  /\ resp = NoResponse
  /\ inflight = NoRequests
  /\ clock = 0
  /\ ticks = 0
  /\ tokens = NoTokens

NextUsers ==
  \/ \E body \in RegisterBodies :
       Handle("POST /auth/register", Register(body))
  \/ \E caller \in Callers, body \in PatientBodies :
       Handle("POST /users/patients", CreatePatient(caller, body))
  \/ \E caller \in Callers, body \in UserUpdateBodies :
       Handle("PUT /users/profile", UpdateProfile(caller, body))
  \/ \E caller \in Callers, id \in UserIds, body \in UserUpdateBodies :
       Handle("PUT /users/patients/:id", UpdatePatient(caller, id, body))
  \/ \E caller \in Callers, id \in UserIds :
       Handle("DELETE /users/patients/:id", DeletePatient(caller, id))

SpecUsers == InitUsers /\ [][NextUsers]_vars

(***************************************************************************)
(* The record specification.  The database holds two professionals, one    *)
(* athlete of each, and a report of professional 1 about athlete 3; then   *)
(* any sequence of requests on patients, records and reports.              *)
(***************************************************************************)
Population ==
  (1 :> ProfessionalRecord(MaxEmails + 1)) @@
  (2 :> ProfessionalRecord(MaxEmails + 2)) @@
  (3 :> AthleteRecord(MaxEmails + 3, 1)) @@
  (4 :> AthleteRecord(MaxEmails + 4, 2))

StoredReports ==
  (1 :> [userId |-> 3, professionalId |-> 1, shared |-> FALSE,
         accessCode |-> NoCode])

\* The bearer tokens of the requests: those of the four users (the token
\* of a deleted patient no longer authenticates).
PopulationCallers == PopulationIds

\* Bodies of PUT /users/patients/:id: name alone, or with a key outside
\* the whitelist.
PatientUpdateBodies ==
  {body \in UserUpdateBodies :
     body.name /\ body.email = NoEmail
       /\ (body.role = "absent" \/ body.professionalId = NoId)}

\* Bodies of POST /users/patients: an email in use or not, a password the
\* schema accepts or not.
NewPatientBodies ==
  [email : {1, MaxEmails + 1}, passwordLength : {7, 8}]

Init ==
  /\ users = Population
  /\ nextUser = 5
  /\ performance = EmptyCollection
  /\ anthropometric = EmptyCollection
  /\ health = EmptyCollection
  /\ reports = StoredReports
  /\ nextRec = 2
  /\ resp = NoResponse
  /\ inflight = NoRequests
  /\ clock = 0
  /\ ticks = 0
  /\ tokens = NoTokens

Next ==
  \/ \E caller \in PopulationCallers, body \in NewPatientBodies :
       Handle("POST /users/patients", CreatePatient(caller, body))
  \/ \E caller \in PopulationCallers, id \in PopulationIds,
        body \in PatientUpdateBodies :
       Handle("PUT /users/patients/:id", UpdatePatient(caller, id, body))
  \/ \E caller \in PopulationCallers, id \in PopulationIds :
       Handle("DELETE /users/patients/:id", DeletePatient(caller, id))
  \/ \E caller \in PopulationCallers, body \in CreateBodies :
       Handle("POST /performance", CreatePerformance(caller, body))
  \/ \E caller \in PopulationCallers, id \in RecIds,
        body \in MeasurementBodies :
       Handle("PUT /performance/:id", UpdatePerformance(caller, id, body))
  \/ \E caller \in PopulationCallers, id \in RecIds :
       Handle("DELETE /performance/:id", DeletePerformance(caller, id))
  \/ \E caller \in PopulationCallers, body \in CreateBodies :
       Handle("POST /measurements/anthropometric",
              CreateAnthropometric(caller, body))
  \/ \E caller \in PopulationCallers, id \in RecIds,
        body \in MeasurementBodies :
       Handle("PUT /measurements/anthropometric/:id",
              UpdateAnthropometric(caller, id, body))
  \/ \E caller \in PopulationCallers, id \in RecIds :
       Handle("DELETE /measurements/anthropometric/:id",
              DeleteAnthropometric(caller, id))
  \/ \E caller \in PopulationCallers, body \in HealthBodies :
       Handle("POST /health", CreateHealth(caller, body))
  \/ \E caller \in PopulationCallers, id \in RecIds, body \in HealthBodies :
       Handle("PUT /health/:id", UpdateHealth(caller, id, body))
  \/ \E caller \in PopulationCallers, id \in RecIds :
       Handle("DELETE /health/:id", DeleteHealth(caller, id))
  \/ \E caller \in PopulationCallers, body \in ReportBodies,
        code \in AccessCodes :
       Handle("POST /reports", CreateReport(caller, body, code))
  \/ \E caller \in PopulationCallers, id \in RecIds, code \in AccessCodes :
       Handle("POST /reports/:id/share", ShareReport(caller, id, code))
  \/ \E caller \in PopulationCallers, id \in RecIds :
       Handle("DELETE /reports/:id", DeleteReport(caller, id))

Spec == Init /\ [][Next]_vars


(***************************************************************************)
(* Requests served concurrently.  A handler awaits each database           *)
(* operation, so the operations of two requests interleave: a request is   *)
(* in flight from its first operation to its last.  inflight is the bag    *)
(* of what the handlers of the requests in flight keep between their       *)
(* operations.                                                             *)
(***************************************************************************)
\* The requests in flight.
Requests == BagToSet(inflight)

\* The handler of a request has run up to an await.
Pending(op, caller, id, email, role, professionalId) ==
  [op |-> op, caller |-> caller, id |-> id, email |-> email, role |-> role,
   professionalId |-> professionalId]

\* The bag without one copy of the request.
Finished(request) == inflight (-) SetToBag({request})

\* One step of a request: the database and the response of the outcome,
\* and the requests the step leaves in flight.
Serve(op, outcome, pending) ==
  /\ IF outcome.nextUser = nextUser THEN TRUE
     ELSE outcome.nextUser <= MaxUsers + 1
  /\ users' = outcome.users
  /\ nextUser' = outcome.nextUser
  /\ performance' = outcome.performance
  /\ anthropometric' = outcome.anthropometric
  /\ health' = outcome.health
  /\ reports' = outcome.reports
  /\ nextRec' = outcome.nextRec
  /\ resp' = [op |-> op, status |-> outcome.status]
  /\ inflight' = pending
  /\ UNCHANGED <<clock, ticks, tokens>>

\* A step that awaits the next operation: no response yet.
Await(request) ==
  /\ BagCardinality(inflight) < MaxInflight
  /\ inflight' = inflight (+) SetToBag({request})
  /\ UNCHANGED <<users, nextUser, performance, anthropometric, health,
                 reports, nextRec, resp, clock, ticks, tokens>>

(***************************************************************************)
(* The unique index on users.email: an insert or an update whose email     *)
(* another document holds fails with a duplicate key error.                *)
(***************************************************************************)
NoUniqueIndex(id, email) == FALSE

UniqueIndexRejects(id, email) ==
  \E u \in DOMAIN users : u # id /\ users[u].email = Lowercase(email)

(***************************************************************************)
(* POST /auth/register in two steps: the validators and                    *)
(* User.findOne({ email }), then user.save().                              *)
(***************************************************************************)
RegisterChecked(body) ==
  RegisterValid(body) /\ ~EmailInUse(body.email)

\* user.save(): a duplicate key error is no ValidationError, the catch
\* answers 500.
RegisterSave(request) ==
  IF UniqueIndexRejects(NoId, request.email)
  THEN Respond(500, "Server error", NoId)
  ELSE [Respond(201, "OK", nextUser) EXCEPT
          !.users = users @@ (nextUser :>
             IF request.role = "athlete"
             THEN AthleteRecord(request.email, request.professionalId)
             ELSE ProfessionalRecord(request.email)),
          !.nextUser = nextUser + 1]

(***************************************************************************)
(* POST /users/patients in two steps: the gates, the validators and        *)
(* User.findOne({ email }), then patient.save().                           *)
(***************************************************************************)
PatientChecked(caller, body) ==
  /\ GateStatus(caller, TRUE) = 0
  /\ body.passwordLength >= PatientMinPassword
  /\ ~EmailInUse(body.email)

PatientSave(request) ==
  IF UniqueIndexRejects(NoId, request.email)
  THEN Respond(500, "INTERNAL_SERVER_ERROR", NoId)
  ELSE [Respond(201, "OK", nextUser) EXCEPT
          !.users = users @@
             (nextUser :> AthleteRecord(request.email, request.caller)),
          !.nextUser = nextUser + 1]

(***************************************************************************)
(* PUT /users/patients/:id in two steps: the gates, User.findOne and the   *)
(* whitelist, then patient.save() of the email the body assigned.          *)
(***************************************************************************)
PatientFound(caller, id, body) ==
  /\ GateStatus(caller, TRUE) = 0
  /\ FindAssignedUser(id, "athlete", caller)
  /\ UserUpdateKeys(body) \subseteq PatientAllowedUpdates

PatientUpdateSave(request) ==
  IF UniqueIndexRejects(request.id, request.email)
  THEN Respond(500, "INTERNAL_SERVER_ERROR", NoId)
  ELSE [Respond(200, "OK", request.id) EXCEPT
          !.users = [users EXCEPT
                       ![request.id].email = Lowercase(request.email)]]

(***************************************************************************)
(* The account specification: a stored professional, then register,        *)
(* create-patient and update-patient requests that carry an email, their   *)
(* database operations interleaved.                                        *)
(***************************************************************************)
\* The emails of the requests: two addresses, the first in upper case too.
AccountEmails == {1, Uppercase(1), 2}

\* Bodies the validators accept when the email is free.
AccountRegisterBodies ==
  {body \in [role : Roles, email : AccountEmails,
             professionalId : {NoId, 1}, athleteFields : {TRUE},
             professionalFields : {TRUE}] :
     body.professionalId = IF body.role = "athlete" THEN 1 ELSE NoId}

\* The passwords are of a length the schema accepts.
AccountPatientBodies ==
  [email : AccountEmails, passwordLength : {SchemaMinPassword}]

AccountUpdateBodies ==
  [name : {FALSE}, email : AccountEmails, role : {"absent"},
   professionalId : {NoId}]

InitAccounts ==
  /\ users = (1 :> ProfessionalRecord(MaxEmails + 1))
  /\ nextUser = 2
  /\ performance = EmptyCollection
  /\ anthropometric = EmptyCollection
  /\ health = EmptyCollection
  /\ reports = EmptyCollection
  /\ nextRec = 1
  /\ resp = NoResponse
  /\ inflight = NoRequests
  /\ clock = 0
  /\ ticks = 0
  /\ tokens = NoTokens

RegisterBegin(body) ==
  IF RegisterChecked(body)
  THEN Await(Pending("POST /auth/register", NoId, NoId, body.email,
                     body.role, body.professionalId))
  ELSE Serve("POST /auth/register", Register(body), inflight)

PatientBegin(caller, body) ==
  IF PatientChecked(caller, body)
  THEN Await(Pending("POST /users/patients", caller, NoId, body.email,
                     "athlete", caller))
  ELSE Serve("POST /users/patients", CreatePatient(caller, body), inflight)

PatientUpdateBegin(caller, id, body) ==
  IF PatientFound(caller, id, body)
  THEN Await(Pending("PUT /users/patients/:id", caller, id, body.email,
                     "athlete", caller))
  ELSE Serve("PUT /users/patients/:id", UpdatePatient(caller, id, body),
             inflight)

\* The save of a request in flight, and its response.
SaveOutcome(request) ==
  IF request.op = "POST /auth/register" THEN RegisterSave(request)
  ELSE IF request.op = "POST /users/patients" THEN PatientSave(request)
  ELSE PatientUpdateSave(request)

NextAccounts ==
  \/ \E body \in AccountRegisterBodies : RegisterBegin(body)
  \/ \E body \in AccountPatientBodies : PatientBegin(1, body)
  \/ \E id \in UserIds, body \in AccountUpdateBodies :
       PatientUpdateBegin(1, id, body)
  \/ \E request \in Requests :
       Serve(request.op, SaveOutcome(request), Finished(request))

SpecAccounts == InitAccounts /\ [][NextAccounts]_vars

(***************************************************************************)
(* Token service.  A token is its claim set (userId, role or none, iat,    *)
(* exp, in seconds) and the secret its signature was made with; the        *)
(* signature of a token altered after signing matches no secret.           *)
(***************************************************************************)
\* expiresIn: '1h' and '7d', in seconds
AccessLifetime == 3600

RefreshLifetime == 604800

NoRole == "none"

NoToken == [secret |-> "none"]

\* jwt.sign(claims, secret, { expiresIn })
Sign(userId, role, secret, lifetime) ==
  [userId |-> userId, role |-> role, secret |-> secret, iat |-> clock,
   exp |-> clock + lifetime]

Tampered(token) == [token EXCEPT !.secret = "forged"]

VerifyAnySecret(token, secret) ==
  token.secret \in {"access", "refresh"} /\ clock < token.exp

\* jwt.verify(token, secret): the signature, then clock >= exp is expired
Verify(token, secret) == token.secret = secret /\ clock < token.exp

\* The response of a token route: the outcome and the pair it carries.
WithTokens(outcome, token, refreshToken) ==
  outcome @@ [token |-> token, refreshToken |-> refreshToken]

WithoutTokens(outcome) == WithTokens(outcome, NoToken, NoToken)

\* POST /auth/register: the tokens of the response
RegisterWithTokens(body) ==
  LET outcome == Register(body)
  IN  IF outcome.status # 201 THEN WithoutTokens(outcome)
      ELSE WithTokens(outcome,
             Sign(outcome.id, outcome.users[outcome.id].role, "access",
                  AccessLifetime),
             Sign(outcome.id, NoRole, "refresh", RefreshLifetime))

(***************************************************************************)
(* POST /auth/login.  body('email').isEmail().normalizeEmail() rewrites    *)
(* the email before the lookup: lower case and, for a gmail address, the   *)
(* dots of the local part removed.  An even address is the odd address     *)
(* before it written with such a dot.  A password is the id of the user    *)
(* whose password it is.                                                   *)
(***************************************************************************)
NormalizeEmail(email) ==
  IF Lowercase(email) % 2 = 0 THEN Lowercase(email) - 1 ELSE Lowercase(email)

\* User.findOne({ email })
FindByEmail(email) == {u \in DOMAIN users : users[u].email = Lowercase(email)}

\* user.comparePassword(password)
ComparePassword(user, password) == password = user

Login(email, password) ==
  LET found == FindByEmail(NormalizeEmail(email))
  IN  IF found = {}
      THEN WithoutTokens(Respond(401, "INVALID_CREDENTIALS", NoId))
      ELSE LET user == CHOOSE u \in found : TRUE
           IN  IF ~ComparePassword(user, password)
               THEN WithoutTokens(Respond(401, "INVALID_CREDENTIALS", NoId))
               ELSE WithTokens(Respond(200, "OK", user),
                      Sign(user, NoRole, "access", AccessLifetime),
                      Sign(user, NoRole, "refresh", RefreshLifetime))

(***************************************************************************)
(* POST /auth/refresh                                                      *)
(***************************************************************************)
RefreshOnce(refreshToken) ==
  IF ~Verify(refreshToken, "refresh")
       \/ refreshToken.userId \notin DOMAIN users
       \/ (refreshToken \in DOMAIN tokens /\ tokens[refreshToken] > 0)
  THEN WithoutTokens(Respond(401, "INVALID_TOKEN", NoId))
  ELSE WithTokens(Respond(200, "OK", refreshToken.userId),
         Sign(refreshToken.userId, NoRole, "access", AccessLifetime),
         Sign(refreshToken.userId, NoRole, "refresh", RefreshLifetime))

Refresh(refreshToken) ==
  IF ~Verify(refreshToken, "refresh")
  THEN WithoutTokens(Respond(401, "INVALID_TOKEN", NoId))
  ELSE IF refreshToken.userId \notin DOMAIN users
  THEN WithoutTokens(Respond(401, "INVALID_TOKEN", NoId))
  ELSE WithTokens(Respond(200, "OK", refreshToken.userId),
         Sign(refreshToken.userId, NoRole, "access", AccessLifetime),
         Sign(refreshToken.userId, NoRole, "refresh", RefreshLifetime))

(***************************************************************************)
(* The token specification.  The database holds a professional and an      *)
(* athlete of theirs whose address has a dot; requests register, log in,   *)
(* refresh and delete the patient while the clock advances.  tokens maps   *)
(* each token the client keeps to the number of times POST /auth/refresh   *)
(* has accepted it.                                                        *)
(***************************************************************************)
TokenPopulation ==
  (1 :> ProfessionalRecord(3)) @@ (2 :> AthleteRecord(2, 1))

InitTokens ==
  /\ users = TokenPopulation
  /\ nextUser = 3
  /\ performance = EmptyCollection
  /\ anthropometric = EmptyCollection
  /\ health = EmptyCollection
  /\ reports = EmptyCollection
  /\ nextRec = 1
  /\ resp = NoResponse
  /\ inflight = NoRequests
  /\ clock = 0
  /\ ticks = 0
  /\ tokens = NoTokens

Held == DOMAIN tokens

\* The client keeps the first pair a response carries.
Kept(response) ==
  LET pair == {response.token, response.refreshToken} \ {NoToken}
  IN  IF Held = {} THEN [t \in pair |-> 0] ELSE tokens

\* One more accepted use of the token, when a client keeps it.
Used(token, response) ==
  IF token \in Held /\ response.status = 200 /\ tokens[token] < MaxUses
  THEN [Kept(response) EXCEPT ![token] = @ + 1]
  ELSE Kept(response)

\* A token route as an action.
Answer(op, response, held) ==
  /\ IF response.nextUser = nextUser THEN TRUE
     ELSE response.nextUser <= MaxUsers + 1
  /\ users' = response.users
  /\ nextUser' = response.nextUser
  /\ performance' = response.performance
  /\ anthropometric' = response.anthropometric
  /\ health' = response.health
  /\ reports' = response.reports
  /\ nextRec' = response.nextRec
  /\ resp' = [op |-> op, status |-> response.status]
  /\ tokens' = held
  /\ UNCHANGED <<inflight, clock, ticks>>

\* The clock advances by a second, to the last second of an access
\* token's life, or by the rest of a refresh token's life.
Steps == {1, AccessLifetime - 1, RefreshLifetime - AccessLifetime}

Tick(step) ==
  /\ ticks < MaxTicks
  /\ ticks' = ticks + 1
  /\ clock' = clock + step
  /\ UNCHANGED <<users, nextUser, performance, anthropometric, health,
                 reports, nextRec, resp, inflight, tokens>>

TokenRegisterBodies ==
  {body \in RegisterBodies :
     /\ body.role = "athlete" /\ body.professionalId = 1
     /\ body.athleteFields /\ body.professionalFields
     /\ body.email \in {1, 2}}

\* Emails and passwords of the login requests.
LoginEmails == {1, 2, 3, Uppercase(3)}

Passwords == UserIds

\* Tokens a client can present: those kept, as issued or altered.
Presentable == Held \cup {Tampered(t) : t \in Held}

NextTokens ==
  \/ \E step \in Steps : Tick(step)
  \/ \E body \in TokenRegisterBodies :
       Answer("POST /auth/register", RegisterWithTokens(body),
              Kept(RegisterWithTokens(body)))
  \/ \E email \in LoginEmails, password \in Passwords :
       Answer("POST /auth/login", Login(email, password),
              Kept(Login(email, password)))
  \/ \E token \in Presentable :
       Answer("POST /auth/refresh", Refresh(token),
              Used(token, Refresh(token)))
  \/ \E caller \in {1, 2}, id \in {2, 3} :
       Answer("DELETE /users/patients/:id", DeletePatient(caller, id), tokens)

SpecTokens == InitTokens /\ [][NextTokens]_vars

(***************************************************************************)
(* Reports shared by concurrent requests.  POST /reports/:id/share awaits  *)
(* Report.findOne and then report.save(): the handler keeps the document   *)
(* it loaded, sets shared on it, the pre-save hook gives it a code when    *)
(* it has none, and save() writes the paths that changed on the loaded     *)
(* document to the stored one.  Report.findOneAndDelete is one operation.  *)
(***************************************************************************)
\* The values the generator of the pre-save hook returns.
ReportCodes == 1..(MaxCodes + 1)

ReportIds == 1..(MaxRecs + 1)

\* The professional of a stored report.
ReportOwner(r) == 1 + (r % 2)

\* Reports as the program stores them before any is shared.
UnsharedReports ==
  [r \in ReportIds |->
     [userId |-> ReportOwner(r) + 2, professionalId |-> ReportOwner(r),
      shared |-> FALSE, accessCode |-> NoCode]]

InitReports ==
  /\ users = Population
  /\ nextUser = 5
  /\ performance = EmptyCollection
  /\ anthropometric = EmptyCollection
  /\ health = EmptyCollection
  /\ reports = UnsharedReports
  /\ nextRec = MaxRecs + 2
  /\ resp = NoResponse
  /\ inflight = NoRequests
  /\ clock = 0
  /\ ticks = 0
  /\ tokens = NoTokens

\* The handler holds the document Report.findOne returned.
Loaded(op, caller, id, document) ==
  [op |-> op, caller |-> caller, id |-> id, document |-> document]

\* The gates and Report.findOne({ _id, professionalId }).
ShareFound(caller, id) ==
  /\ GateStatus(caller, TRUE) = 0
  /\ FindByProfessional(reports, id, caller)

\* save() of a document loaded earlier: only the paths that changed on it
\* are written.  A document deleted since is not written (the answer
\* depends on the build: lost is its status); a code another report holds
\* is a duplicate key error.
ShareSave(request, code, lost) ==
  LET document == request.document
      report == ReportPreSave([document EXCEPT !.shared = TRUE], code)
      written == IF report.accessCode # document.accessCode
                 THEN report.accessCode ELSE NoCode
  IN  IF report = document
      THEN Respond(200, "OK", request.id)
      ELSE IF request.id \notin DOMAIN reports
      THEN Respond(lost, "INTERNAL_SERVER_ERROR", NoId)
      ELSE IF CodeHeldByOther(request.id, written)
      THEN Respond(500, "INTERNAL_SERVER_ERROR", NoId)
      ELSE [Respond(200, "OK", request.id) EXCEPT
              !.reports = [reports EXCEPT ![request.id] =
                 [@ EXCEPT !.shared = report.shared,
                           !.accessCode = IF written # NoCode
                                          THEN written ELSE @]]]

ShareBegin(caller, id) ==
  IF ShareFound(caller, id)
  THEN Await(Loaded("POST /reports/:id/share", caller, id, reports[id]))
  ELSE Serve("POST /reports/:id/share", ShareReport(caller, id, NoCode),
             inflight)

NextReports ==
  \/ \E caller \in PopulationCallers, id \in ReportIds :
       ShareBegin(caller, id)
  \/ \E request \in Requests, code \in ReportCodes, lost \in {200, 500} :
       Serve(request.op, ShareSave(request, code, lost), Finished(request))
  \/ \E caller \in PopulationCallers, id \in ReportIds :
       Handle("DELETE /reports/:id", DeleteReport(caller, id))
  \/ \E caller \in PopulationCallers, body \in ReportBodies,
        code \in ReportCodes :
       Handle("POST /reports", CreateReport(caller, body, code))

SpecReports == InitReports /\ [][NextReports]_vars

(***************************************************************************)
(* Patient deletion served concurrently with record creation.              *)
(* DELETE /users/patients/:id awaits User.findOne and then Promise.all of  *)
(* three deleteMany and patient.deleteOne(): the four operations reach     *)
(* the database in any order, and the response follows the last.  POST     *)
(* /performance and POST /measurements/anthropometric await User.findOne   *)
(* and then save(); POST /health awaits the user lookup of auth and then   *)
(* save().                                                                 *)
(***************************************************************************)
\* The operations of the Promise.all.
CascadeOperations == {"anthropometric", "health", "performance", "patient"}

\* The delete has found the patient; left are the operations not yet run.
Deleting(caller, id, left) ==
  [op |-> "DELETE /users/patients/:id", caller |-> caller, id |-> id,
   body |-> [userId |-> id], left |-> left]

\* A create has passed its lookup and has its save left.
Creating(op, caller, body) ==
  [op |-> op, caller |-> caller, id |-> NoId, body |-> body,
   left |-> {"save"}]

DeleteFound(caller, id) ==
  /\ GateStatus(caller, TRUE) = 0
  /\ FindAssignedUser(id, "athlete", caller)

DeleteBegin(caller, id) ==
  IF DeleteFound(caller, id)
  THEN Await(Deleting(caller, id, CascadeOperations))
  ELSE Serve("DELETE /users/patients/:id", DeletePatient(caller, id),
             inflight)

\* The four operations as one transaction.
DeleteOperationAtomic(request, operation) ==
  [Respond(200, "OK", NoId) EXCEPT
     !.anthropometric = DeleteManyByUser(anthropometric, request.id),
     !.health = DeleteManyByUser(health, request.id),
     !.performance = DeleteManyByUser(performance, request.id),
     !.users = Remove(users, request.id)]

\* One operation of the Promise.all on the database.
DeleteOperation(request, operation) ==
  IF operation = "anthropometric"
  THEN [Respond(200, "OK", NoId) EXCEPT
          !.anthropometric = DeleteManyByUser(anthropometric, request.id)]
  ELSE IF operation = "health"
  THEN [Respond(200, "OK", NoId) EXCEPT
          !.health = DeleteManyByUser(health, request.id)]
  ELSE IF operation = "performance"
  THEN [Respond(200, "OK", NoId) EXCEPT
          !.performance = DeleteManyByUser(performance, request.id)]
  ELSE [Respond(200, "OK", NoId) EXCEPT !.users = Remove(users, request.id)]

\* The delete runs one of its operations; res.json after the last.
DeleteProceed(request, operation) ==
  IF request.left = {operation}
  THEN Serve(request.op, DeleteOperation(request, operation),
             Finished(request))
  ELSE Serve(resp.op,
             [DeleteOperation(request, operation) EXCEPT
                !.status = resp.status],
             Finished(request) (+)
               SetToBag({[request EXCEPT !.left = @ \ {operation}]}))

\* The gates and User.findOne of a create by a professional.
CreateFound(caller, body) ==
  /\ GateStatus(caller, TRUE) = 0
  /\ FindAssignedUser(body.userId, "athlete", caller)

PerformanceBegin(caller, body) ==
  IF CreateFound(caller, body)
  THEN Await(Creating("POST /performance", caller, body))
  ELSE Serve("POST /performance", CreatePerformance(caller, body), inflight)

AnthropometricBegin(caller, body) ==
  IF CreateFound(caller, body)
  THEN Await(Creating("POST /measurements/anthropometric", caller, body))
  ELSE Serve("POST /measurements/anthropometric",
             CreateAnthropometric(caller, body), inflight)

HealthBegin(caller, body) ==
  IF Authenticated(caller)
  THEN Await(Creating("POST /health", caller, body))
  ELSE Serve("POST /health", CreateHealth(caller, body), inflight)

\* save() of the document the handler built after its lookup.
CreateSave(request) ==
  IF request.op = "POST /performance"
  THEN [Respond(201, "OK", nextRec) EXCEPT
          !.performance =
             performance @@ (nextRec :> Stamped(request.body, request.caller)),
          !.nextRec = nextRec + 1]
  ELSE IF request.op = "POST /measurements/anthropometric"
  THEN [Respond(201, "OK", nextRec) EXCEPT
          !.anthropometric =
             anthropometric @@
               (nextRec :> Stamped(request.body, request.caller)),
          !.nextRec = nextRec + 1]
  ELSE [Respond(201, "OK", nextRec) EXCEPT
          !.health = health @@ (nextRec :> [userId |-> request.caller]),
          !.nextRec = nextRec + 1]

CreateProceed(request) ==
  /\ nextRec <= MaxRecs + 1
  /\ Serve(request.op, CreateSave(request), Finished(request))

\* The patient the requests are about, and the users sending them.
CascadePatients == {3}

CascadeCallers == {1, 3}

CascadeBodies == [userId : CascadePatients, professionalId : {NoId}]

InitCascade ==
  /\ users = Population
  /\ nextUser = 5
  /\ performance = EmptyCollection
  /\ anthropometric = EmptyCollection
  /\ health = EmptyCollection
  /\ reports = EmptyCollection
  /\ nextRec = 1
  /\ resp = NoResponse
  /\ inflight = NoRequests
  /\ clock = 0
  /\ ticks = 0
  /\ tokens = NoTokens

NextCascade ==
  \/ \E caller \in CascadeCallers, id \in CascadePatients :
       DeleteBegin(caller, id)
  \/ \E request \in Requests :
       /\ request.op = "DELETE /users/patients/:id"
       /\ \E operation \in request.left : DeleteProceed(request, operation)
  \/ \E caller \in CascadeCallers, body \in CascadeBodies :
       PerformanceBegin(caller, body)
  \/ \E caller \in CascadeCallers, body \in CascadeBodies :
       AnthropometricBegin(caller, body)
  \/ \E caller \in CascadeCallers, body \in HealthBodies :
       HealthBegin(caller, body)
  \/ \E request \in Requests :
       /\ request.op # "DELETE /users/patients/:id"
       /\ CreateProceed(request)

SpecCascade == InitCascade /\ [][NextCascade]_vars

(***************************************************************************)
(* Patient deletion that may stop half way.  The database holds records    *)
(* of both patients; the professionals delete their patients, and the      *)
(* process may stop while a delete has operations left: they never run.    *)
(***************************************************************************)
\* One record a collection holds for each of the two patients.
PatientRecords ==
  (1 :> [userId |-> 3, professionalId |-> 1]) @@
  (2 :> [userId |-> 4, professionalId |-> 2])

InitStop ==
  /\ users = Population
  /\ nextUser = 5
  /\ performance = PatientRecords
  /\ anthropometric = PatientRecords
  /\ health = [r \in DOMAIN PatientRecords |->
                 [userId |-> PatientRecords[r].userId]]
  /\ reports = EmptyCollection
  /\ nextRec = 3
  /\ resp = NoResponse
  /\ inflight = NoRequests
  /\ clock = 0
  /\ ticks = 0
  /\ tokens = NoTokens

\* The process stops: the operations the requests in flight have left are
\* never issued, and what was written stays.
Stop ==
  /\ inflight # NoRequests
  /\ inflight' = NoRequests
  /\ UNCHANGED <<users, nextUser, performance, anthropometric, health,
                 reports, nextRec, resp, clock, ticks, tokens>>

NextStop ==
  \/ \E caller \in {1, 2}, id \in {3, 4} : DeleteBegin(caller, id)
  \/ \E request \in Requests :
       \E operation \in request.left : DeleteProceed(request, operation)
  \/ Stop

SpecStop == InitStop /\ [][NextStop]_vars

(***************************************************************************)
(* The derived field of a measurement.  A measurement here carries weight, *)
(* bodyFatPercentage and leanMass beside its stamps; Absent is a path      *)
(* without value.  The values are such that the product is a whole         *)
(* number.                                                                 *)
(***************************************************************************)
Absent == -1

\* Bodies of PUT /measurements/anthropometric/:id, every key optional, and
\* of POST /measurements/anthropometric, where weight is required.
LeanUpdateBodies ==
  [userId : {3}, weight : {Absent, 0, 80},
   bodyFatPercentage : {Absent, 0, 25, 50}, leanMass : {Absent, 10}]

LeanCreateBodies == {body \in LeanUpdateBodies : body.weight # Absent}

\* JavaScript truthiness of a number path: undefined and 0 are falsy.
Truthy(value) == value # Absent /\ value # 0

\* anthropometricMeasurementSchema.pre('save')
LeanMassPreSave(measurement, modified) ==
  IF /\ modified \cap {"weight", "bodyFatPercentage"} # {}
     /\ Truthy(measurement.bodyFatPercentage)
     /\ Truthy(measurement.weight)
  THEN [measurement EXCEPT
          !.leanMass = (measurement.weight
                         * (100 - measurement.bodyFatPercentage)) \div 100]
  ELSE measurement

\* The paths of the body that have a value.
BodyPaths(body) ==
  {path \in {"weight", "bodyFatPercentage", "leanMass"} : body[path] # Absent}

\* new AnthropometricMeasurement({ ...req.body, professionalId }) and save()
CreateLeanHandler(caller, body) ==
  IF ~FindAssignedUser(body.userId, "athlete", caller)
  THEN Respond(404, "NOT_FOUND", NoId)
  ELSE [Respond(201, "OK", nextRec) EXCEPT
          !.anthropometric = anthropometric @@ (nextRec :>
             LeanMassPreSave(
               [userId |-> body.userId, professionalId |-> caller,
                weight |-> body.weight,
                bodyFatPercentage |-> body.bodyFatPercentage,
                leanMass |-> body.leanMass],
               BodyPaths(body))),
          !.nextRec = nextRec + 1]

\* measurement[update] = req.body[update] for every key, and save(); a
\* path is modified when its value changed.
UpdateLeanHandler(caller, id, body) ==
  IF ~FindByProfessional(anthropometric, id, caller)
  THEN Respond(404, "NOT_FOUND", NoId)
  ELSE LET stored == anthropometric[id]
           assigned == [path \in DOMAIN stored |->
                          IF path \in BodyPaths(body)
                          THEN body[path] ELSE stored[path]]
           modified == {path \in BodyPaths(body) : body[path] # stored[path]}
       IN  [Respond(200, "OK", id) EXCEPT
              !.anthropometric =
                 [anthropometric EXCEPT
                    ![id] = LeanMassPreSave(assigned, modified)]]

InitLean ==
  /\ users = Population
  /\ nextUser = 5
  /\ performance = EmptyCollection
  /\ anthropometric = EmptyCollection
  /\ health = EmptyCollection
  /\ reports = EmptyCollection
  /\ nextRec = 1
  /\ resp = NoResponse
  /\ inflight = NoRequests
  /\ clock = 0
  /\ ticks = 0
  /\ tokens = NoTokens

NextLean ==
  \/ \E caller \in {1, 2}, body \in LeanCreateBodies :
       Handle("POST /measurements/anthropometric",
              Route(caller, TRUE, CreateLeanHandler(caller, body)))
  \/ \E caller \in {1, 2}, id \in RecIds, body \in LeanUpdateBodies :
       Handle("PUT /measurements/anthropometric/:id",
              Route(caller, TRUE, UpdateLeanHandler(caller, id, body)))

SpecLean == InitLean /\ [][NextLean]_vars

(***************************************************************************)
(* Properties.                                                             *)
(***************************************************************************)
\* Requests in flight that create a user.
Creations ==
  {r \in Requests : r.op \in {"POST /auth/register", "POST /users/patients"}}

Professionals == {u \in DOMAIN users : users[u].role = "professional"}

Athletes == {u \in DOMAIN users : users[u].role = "athlete"}

\* The userId query parameters of the list requests.
Targets == {NoId} \cup PopulationIds

\* The answer of a handler that finds nothing in the caller's scope.
Answer404 == Respond(404, "NOT_FOUND", NoId)

\* The answer of the requireProfessional gate.
Answer403 == Respond(403, "FORBIDDEN", NoId)

(***************************************************************************)
(* C1.  Read isolation between professionals: for distinct professionals   *)
(* A and B, no list or get-one response to A carries a performance         *)
(* record, measurement or report whose professionalId is B, or a patient   *)
(* of B; a get-one by A with the id of such a document answers 404; and    *)
(* GET /performance?userId=<athlete of B> by A returns the empty list.     *)
(***************************************************************************)
ReadIsolation ==
  \A A \in Professionals : \A B \in Professionals \ {A} :
    /\ \A target \in Targets :
         \A r \in ListPerformance(A, target).data :
           performance[r].professionalId # B
    /\ \A strictQuery \in BOOLEAN, target \in Targets :
         \A m \in ListAnthropometric(A, target, strictQuery).data :
           anthropometric[m].professionalId # B
    /\ \A r \in ListReports(A).data : reports[r].professionalId # B
    /\ \A u \in ListPatients(A).data : users[u].professionalId # B
    /\ \A id \in RecIds :
         /\ (id \in DOMAIN performance /\ performance[id].professionalId = B)
              => GetPerformance(A, id) = NotFound
         /\ (id \in DOMAIN anthropometric
               /\ anthropometric[id].professionalId = B)
              => \A strictQuery \in BOOLEAN :
                   GetAnthropometric(A, id, strictQuery) = NotFound
         /\ (id \in DOMAIN reports /\ reports[id].professionalId = B)
              => GetReport(A, id) = NotFound
    /\ \A u \in Athletes :
         users[u].professionalId = B =>
           /\ GetPatient(A, u) = NotFound
           /\ ListPerformance(A, u).data = {}

(***************************************************************************)
(* C2.  Every POST, PUT or DELETE on /performance,                         *)
(* /measurements/anthropometric, /reports (the share included) and         *)
(* /users/patients by a caller whose role is athlete is answered by the    *)
(* requireProfessional gate and writes to no collection.                   *)
(***************************************************************************)
AthleteWritesRejected ==
  \A caller \in Athletes :
    /\ \A body \in CreateBodies :
         /\ CreatePerformance(caller, body) = Answer403
         /\ CreateAnthropometric(caller, body) = Answer403
    /\ \A id \in RecIds :
         /\ \A body \in MeasurementBodies :
              /\ UpdatePerformance(caller, id, body) = Answer403
              /\ UpdateAnthropometric(caller, id, body) = Answer403
         /\ DeletePerformance(caller, id) = Answer403
         /\ DeleteAnthropometric(caller, id) = Answer403
         /\ DeleteReport(caller, id) = Answer403
         /\ \A code \in AccessCodes : ShareReport(caller, id, code) = Answer403
    /\ \A body \in ReportBodies, code \in AccessCodes :
         CreateReport(caller, body, code) = Answer403
    /\ \A body \in NewPatientBodies : CreatePatient(caller, body) = Answer403
    /\ \A id \in PopulationIds :
         /\ \A body \in PatientUpdateBodies :
              UpdatePatient(caller, id, body) = Answer403
         /\ DeletePatient(caller, id) = Answer403

\* An athlete's PUT on an existing performance record was just answered 403.
AthleteWriteRejectedReached ==
  /\ resp = [op |-> "PUT /performance/:id", status |-> 403]
  /\ Athletes # {}
  /\ DOMAIN performance # {}
  /\ \E caller \in Athletes, id \in DOMAIN performance,
        body \in MeasurementBodies :
       /\ body.userId # NoId
       /\ UpdatePerformance(caller, id, body).status = 403

(***************************************************************************)
(* C3.  Write isolation between professionals: a PUT or DELETE by          *)
(* professional A on a performance record, measurement or report whose     *)
(* professionalId is another professional B, or on a patient of B, is      *)
(* answered 404 NOT_FOUND and writes to no collection.                     *)
(***************************************************************************)
WriteIsolation ==
  \A A \in Professionals : \A B \in Professionals \ {A} :
    /\ \A id \in RecIds :
         /\ (id \in DOMAIN performance /\ performance[id].professionalId = B)
              => /\ \A body \in MeasurementBodies :
                      UpdatePerformance(A, id, body) = Answer404
                 /\ DeletePerformance(A, id) = Answer404
         /\ (id \in DOMAIN anthropometric
               /\ anthropometric[id].professionalId = B)
              => /\ \A body \in MeasurementBodies :
                      UpdateAnthropometric(A, id, body) = Answer404
                 /\ DeleteAnthropometric(A, id) = Answer404
         /\ (id \in DOMAIN reports /\ reports[id].professionalId = B)
              => DeleteReport(A, id) = Answer404
    /\ \A u \in Athletes :
         users[u].professionalId = B =>
           /\ \A body \in PatientUpdateBodies :
                UpdatePatient(A, u, body) = Answer404
           /\ DeletePatient(A, u) = Answer404

\* A professional's DELETE was just answered 404 while the other
\* professional holds a performance record and a patient with records.
WriteIsolationReached ==
  /\ resp = [op |-> "DELETE /performance/:id", status |-> 404]
  /\ \E A \in Professionals : \E B \in Professionals \ {A} :
       \E id \in DOMAIN performance :
         /\ performance[id].professionalId = B
         /\ performance[id].userId \in Athletes
         /\ users[performance[id].userId].professionalId = B
         /\ DeletePerformance(A, id).status = 404
         /\ DeletePatient(A, performance[id].userId).status = 404
         /\ DeletePatient(B, performance[id].userId).status = 200

(***************************************************************************)
(* C4.  An athlete's GET /performance and GET /reports return exactly the  *)
(* stored records whose userId is the caller, whatever userId the query    *)
(* names; GET /performance/:id and GET /reports/:id return the record      *)
(* when its userId is the caller and answer 404 otherwise.                 *)
(***************************************************************************)
AthleteScope ==
  \A caller \in Athletes :
    /\ \A target \in Targets :
         ListPerformance(caller, target) =
           Found({r \in DOMAIN performance : performance[r].userId = caller})
    /\ ListReports(caller) =
         Found({r \in DOMAIN reports : reports[r].userId = caller})
    /\ \A id \in RecIds :
         /\ GetPerformance(caller, id) =
              IF id \in DOMAIN performance /\ performance[id].userId = caller
              THEN Found({id}) ELSE NotFound
         /\ GetReport(caller, id) =
              IF id \in DOMAIN reports /\ reports[id].userId = caller
              THEN Found({id}) ELSE NotFound

\* An athlete sees a performance record; another athlete, a report; and
\* neither sees the other's.
AthleteScopeReached ==
  \E a \in Athletes : \E b \in Athletes \ {a} :
    /\ ListPerformance(a, b).data # {}
    /\ ListReports(b).data # {}
    /\ ListPerformance(b, NoId).data = {}
    /\ ListReports(a).data = {}
    /\ \E id \in ListReports(b).data : GetReport(a, id) = NotFound

(***************************************************************************)
(* C5.  An athlete's GET /measurements/anthropometric returns exactly the  *)
(* stored measurements whose userId is the caller, and                     *)
(* GET /measurements/anthropometric/:id the measurement when its userId    *)
(* is the caller (on one build of the query layer at least).               *)
(***************************************************************************)
AthleteAnthropometricScope ==
  \E strictQuery \in BOOLEAN :
    \A caller \in Athletes :
      /\ ListAnthropometric(caller, NoId, strictQuery) =
           Found({m \in DOMAIN anthropometric :
                    anthropometric[m].userId = caller})
      /\ \A id \in RecIds :
           GetAnthropometric(caller, id, strictQuery) =
             IF id \in DOMAIN anthropometric
                  /\ anthropometric[id].userId = caller
             THEN Found({id}) ELSE NotFound

(***************************************************************************)
(* C6.  A professional's list of performance records or anthropometric     *)
(* measurements is exactly the records with professionalId = caller, and,  *)
(* when the request names a target athlete, with userId = the target as    *)
(* well (on one build of the query layer at least).                        *)
(***************************************************************************)
ProfessionalTargetScope ==
  \E strictQuery \in BOOLEAN :
    \A caller \in Professionals, target \in Targets :
      /\ ListPerformance(caller, target) =
           Found({r \in DOMAIN performance :
                    /\ performance[r].professionalId = caller
                    /\ target # NoId => performance[r].userId = target})
      /\ ListAnthropometric(caller, target, strictQuery) =
           Found({m \in DOMAIN anthropometric :
                    /\ anthropometric[m].professionalId = caller
                    /\ target # NoId => anthropometric[m].userId = target})

(***************************************************************************)
(* C7.  POST /performance and POST /measurements/anthropometric answer     *)
(* 201 only if body.userId is an existing athlete whose professionalId is  *)
(* the caller, and then store one record with that userId and              *)
(* professionalId = caller, whatever professionalId the body carries; for  *)
(* an athlete that does not exist or belongs to another professional they  *)
(* answer 404 and store nothing.                                           *)
(***************************************************************************)
CreatedIn(before, after, id, body, caller) ==
  /\ id \notin DOMAIN before
  /\ DOMAIN after = DOMAIN before \cup {id}
  /\ \A x \in DOMAIN before : after[x] = before[x]
  /\ after[id].userId = body.userId
  /\ after[id].professionalId = caller

CreateStamped ==
  \A caller \in DOMAIN users, body \in CreateBodies :
    LET perf == CreatePerformance(caller, body)
        anth == CreateAnthropometric(caller, body)
        assigned == /\ body.userId \in Athletes
                    /\ users[body.userId].professionalId = caller
    IN  /\ perf.status = 201 =>
             /\ assigned
             /\ CreatedIn(performance, perf.performance, perf.id, body, caller)
        /\ anth.status = 201 =>
             /\ assigned
             /\ CreatedIn(anthropometric, anth.anthropometric, anth.id, body,
                          caller)
        /\ (caller \in Professionals /\ ~assigned) =>
             perf = Answer404 /\ anth = Answer404
        /\ (caller \in Professionals /\ assigned) =>
             perf.status = 201 /\ anth.status = 201

\* POST /performance was just answered 201; the record is stamped with the
\* professional of its athlete, where a body naming the other professional
\* would be too, and the other professional's POST would be answered 404.
CreateStampedReached ==
  /\ resp = [op |-> "POST /performance", status |-> 201]
  /\ \E id \in DOMAIN performance :
       LET owner == performance[id].professionalId
           body == [userId |-> performance[id].userId, professionalId |-> 2]
       IN  /\ nextRec = id + 1
           /\ owner = 1
           /\ FindAssignedUser(performance[id].userId, "athlete", owner)
           /\ CreatePerformance(owner, body).status = 201
           /\ CreatePerformance(2, body).status = 404

(***************************************************************************)
(* C8.  POST /reports by a professional for an athlete assigned to them    *)
(* answers 201 and stores a report with that userId and                    *)
(* professionalId = caller; for another athlete it answers 404.            *)
(***************************************************************************)
ReportCreatedForAssignedAthlete ==
  \A caller \in Professionals, body \in ReportBodies, code \in AccessCodes :
    LET outcome == CreateReport(caller, body, code)
    IN  IF FindAssignedUser(body.userId, "athlete", caller)
        THEN /\ outcome.status = 201
             /\ outcome.id \in DOMAIN outcome.reports
             /\ outcome.reports[outcome.id].userId = body.userId
             /\ outcome.reports[outcome.id].professionalId = caller
        ELSE outcome = Answer404

(***************************************************************************)
(* C9.  Every user whose role is athlete has a professionalId that is the  *)
(* id of an existing user whose role is professional.                      *)
(***************************************************************************)
AthleteHasProfessional ==
  \A u \in DOMAIN users :
    users[u].role = "athlete" =>
      /\ users[u].professionalId \in DOMAIN users
      /\ users[users[u].professionalId].role = "professional"

\* An athlete was just registered while another user is an athlete too.
AthleteHasProfessionalReached ==
  /\ resp = [op |-> "POST /auth/register", status |-> 201]
  /\ nextUser - 1 \in Athletes
  /\ Cardinality(Athletes) >= 2

(***************************************************************************)
(* C10.  POST /auth/register accepts a professional payload that has no    *)
(* professionalId, gender, age or country; it answers an athlete payload   *)
(* whose professionalId is missing, is not 24 hex digits or is the id of   *)
(* no professional with 400 'Validation failed' and creates no user.       *)
(***************************************************************************)
RegisterRoleConditional ==
  \A body \in RegisterBodies :
    LET outcome == Register(body)
    IN  /\ (body.role = "professional" /\ body.professionalFields
              /\ ~EmailInUse(body.email)) =>
             /\ outcome.status = 201
             /\ outcome.users =
                  users @@ (outcome.id :> ProfessionalRecord(body.email))
        /\ (body.role = "athlete"
              /\ (body.professionalId \in {NoId, Malformed}
                    \/ body.professionalId \notin Professionals)) =>
             outcome = Respond(400, "Validation failed", NoId)

\* A registration was just answered 400 in a state with a professional and
\* an athlete, where a professional payload without the athlete's fields
\* would be accepted and athlete payloads naming an athlete or nobody as
\* the professional are refused.
RegisterRoleConditionalReached ==
  /\ resp = [op |-> "POST /auth/register", status |-> 400]
  /\ Professionals # {}
  /\ \E a \in Athletes, body \in RegisterBodies :
       /\ body.role = "professional"
       /\ body.professionalId = NoId
       /\ ~body.athleteFields
       /\ Register(body).status = 201
       /\ Register([body EXCEPT !.role = "athlete", !.athleteFields = TRUE,
                                !.professionalId = a]).status = 400
       /\ Register([body EXCEPT !.role = "athlete", !.athleteFields = TRUE,
                                !.professionalId = Malformed]).status = 400
       /\ Register([body EXCEPT !.role = "athlete", !.athleteFields = TRUE,
                                !.professionalId = users[a].professionalId])
            .status = 201

(***************************************************************************)
(* C11.  No two users have the same email, compared without regard to      *)
(* case, in every state reached by interleaving the database operations    *)
(* of register, create-patient and update-patient requests.                *)
(***************************************************************************)
UniqueEmails ==
  \A u \in DOMAIN users : \A v \in DOMAIN users \ {u} :
    Lowercase(users[u].email) # Lowercase(users[v].email)

\* A request passed its existence check with an address in upper case and
\* a save of another request has since stored the address; a request in
\* flight is about to give a patient an email another user holds.
UniqueEmailsReached ==
  /\ resp.status = 201
  /\ \E r \in Creations :
       /\ r.email < 0
       /\ EmailInUse(r.email)
       /\ SaveOutcome(r).status = 500
  /\ \E r \in Requests :
       /\ r.op = "PUT /users/patients/:id"
       /\ UniqueIndexRejects(r.id, r.email)

(***************************************************************************)
(* C12.  A registration or patient creation whose email a user already     *)
(* holds is answered 400 and creates no user, also when the email was      *)
(* free at the request's existence check and another request's save has    *)
(* stored it since.                                                        *)
(***************************************************************************)
DuplicateEmailAnswered400 ==
  /\ \A body \in AccountRegisterBodies :
       EmailInUse(body.email) =>
         Register(body).status = 400 /\ NoWrite(Register(body))
  /\ \A body \in AccountPatientBodies :
       EmailInUse(body.email) =>
         /\ CreatePatient(1, body).status = 400
         /\ NoWrite(CreatePatient(1, body))
  /\ \A r \in Creations :
       EmailInUse(r.email) =>
         SaveOutcome(r).status = 400 /\ NoWrite(SaveOutcome(r))

(***************************************************************************)
(* C13.  Every access token the service issues (by register, login or      *)
(* refresh) carries the user's id and the user's role; every refresh       *)
(* token carries the user's id and no role.                                *)
(***************************************************************************)
AccessTokensCarryRole ==
  \A token \in Held :
    /\ token.userId \in UserIds
    /\ token.secret = "access" => token.role \in Roles
    /\ token.secret = "refresh" => token.role = NoRole

\* The answer 401 that carries no token.
Answer401(code) == WithoutTokens(Respond(401, code, NoId))

(***************************************************************************)
(* C14.  Login with the email of a user and that user's password answers   *)
(* with a pair issued now: the access token verifies against the access    *)
(* secret exactly while less than 1 hour has passed since it was issued,   *)
(* the refresh token against the refresh secret exactly while less than    *)
(* 7 days have passed.  Login with an email no user has, or with another   *)
(* password than that of the email's user, answers 401 without tokens.     *)
(***************************************************************************)
LoginIssuesPair ==
  /\ \A u \in DOMAIN users :
       LET response == Login(users[u].email, u)
       IN  /\ response.status = 200
           /\ response.token.userId = u
           /\ response.token.iat = clock
           /\ Verify(response.token, "access")
           /\ response.refreshToken.userId = u
           /\ response.refreshToken.iat = clock
           /\ Verify(response.refreshToken, "refresh")
  /\ \A token \in Held :
       /\ token.secret = "access" =>
            (Verify(token, "access") <=> clock - token.iat < AccessLifetime)
       /\ token.secret = "refresh" =>
            (Verify(token, "refresh") <=> clock - token.iat < RefreshLifetime)
  /\ \A email \in LoginEmails, password \in Passwords :
       (\A u \in DOMAIN users :
          users[u].email = Lowercase(email) => password # u)
         => Login(email, password) = Answer401("INVALID_CREDENTIALS")

(***************************************************************************)
(* C15.  POST /auth/refresh answers 401 INVALID_TOKEN without tokens when  *)
(* the presented token is expired, is not signed with the refresh secret   *)
(* (altered, or an access token), or names a user that no longer exists;   *)
(* otherwise it answers with a pair issued now for the token's user.       *)
(***************************************************************************)
RefreshRejectsInvalid ==
  \A token \in Presentable :
    LET response == Refresh(token)
    IN  IF \/ token.secret # "refresh"
           \/ clock - token.iat >= RefreshLifetime
           \/ token.userId \notin DOMAIN users
        THEN response = Answer401("INVALID_TOKEN")
        ELSE /\ response.status = 200
             /\ response.token.userId = token.userId
             /\ response.token.iat = clock
             /\ Verify(response.token, "access")
             /\ response.refreshToken.userId = token.userId
             /\ response.refreshToken.iat = clock
             /\ Verify(response.refreshToken, "refresh")

\* A refresh was just answered 401; the client holds the unexpired refresh
\* token of a patient deleted since, and an access token that still
\* verifies as one.
RefreshRejectsInvalidReached ==
  /\ resp = [op |-> "POST /auth/refresh", status |-> 401]
  /\ \E token \in Held :
       /\ token.secret = "refresh"
       /\ clock - token.iat < RefreshLifetime
       /\ token.userId \notin DOMAIN users
       /\ Refresh(token).status = 401
  /\ \E token \in Held :
       /\ Verify(token, "access")
       /\ Refresh(token).status = 401

(***************************************************************************)
(* C16.  A refresh token that POST /auth/refresh has accepted, any number  *)
(* of times, is accepted again at every time before its own 7-day expiry   *)
(* while its user exists, and the request changes no collection.           *)
(***************************************************************************)
RefreshTokenReusable ==
  \A token \in Held :
    (/\ token.secret = "refresh"
     /\ clock - token.iat < RefreshLifetime
     /\ token.userId \in DOMAIN users)
      => /\ Refresh(token).status = 200
         /\ NoWrite(Refresh(token))
         /\ Verify(Refresh(token).refreshToken, "refresh")

\* A refresh was just accepted in the last second of the life of a token
\* accepted MaxUses times before, and the token would be accepted again.
RefreshTokenReusableReached ==
  /\ resp = [op |-> "POST /auth/refresh", status |-> 200]
  /\ \E token \in Held :
       /\ token.secret = "refresh"
       /\ tokens[token] = MaxUses
       /\ clock - token.iat = RefreshLifetime - 1
       /\ Refresh(token).status = 200

UniqueAccessCodes ==
  \A r \in DOMAIN reports : \A s \in DOMAIN reports \ {r} :
    reports[r].accessCode # NoCode
      => reports[s].accessCode # reports[r].accessCode

\* A share was refused for the code it generated: it is the code of the
\* other report, no report was deleted (so the 500 is the duplicate key
\* error), and the report of the refused share is stored as it was.
UniqueAccessCodesReached ==
  /\ resp = [op |-> "POST /reports/:id/share", status |-> 500]
  /\ DOMAIN reports = ReportIds
  /\ inflight = NoRequests
  /\ \E r \in DOMAIN reports : \E s \in DOMAIN reports \ {r} :
       /\ reports[r].shared /\ reports[r].accessCode # NoCode
       /\ ~reports[s].shared /\ reports[s].accessCode = NoCode

(***************************************************************************)
(* C19.  GET /reports/shared/:accessCode returns a report only if that     *)
(* report is stored with exactly that code and shared; for any other code  *)
(* it answers 404 (a deleted report is no longer stored).  Every shared    *)
(* report has a code, and the route returns it for that code.              *)
(***************************************************************************)
SharedAccess ==
  /\ \A code \in ReportCodes :
       LET holders == {r \in DOMAIN reports :
                         reports[r].accessCode = code /\ reports[r].shared}
       IN  IF holders = {} THEN GetSharedReport(code) = NotFound
           ELSE /\ GetSharedReport(code).status = 200
                /\ GetSharedReport(code).data \subseteq holders
                /\ Cardinality(GetSharedReport(code).data) = 1
  /\ \A r \in DOMAIN reports :
       reports[r].shared
         => /\ reports[r].accessCode # NoCode
            /\ GetSharedReport(reports[r].accessCode) = Found({r})

\* A report was deleted; a shared report that is left is fetched by its
\* code, and a code no stored report holds answers 404.
SharedAccessReached ==
  /\ resp = [op |-> "DELETE /reports/:id", status |-> 200]
  /\ DOMAIN reports # ReportIds
  /\ \E r \in DOMAIN reports :
       reports[r].shared /\ GetSharedReport(reports[r].accessCode) = Found({r})
  /\ \E code \in ReportCodes : GetSharedReport(code) = NotFound

(***************************************************************************)
(* C20.  Cascade delete is eventually complete: when a patient has been    *)
(* deleted and no request is in flight, no health, performance or          *)
(* anthropometric record has the userId of the deleted patient, whatever   *)
(* the interleaving of the delete's operations with other requests.        *)
(***************************************************************************)
CascadeComplete ==
  inflight = NoRequests
    => \A id \in PopulationIds \ DOMAIN users :
         /\ \A r \in DOMAIN health : health[r].userId # id
         /\ \A r \in DOMAIN performance : performance[r].userId # id
         /\ \A r \in DOMAIN anthropometric : anthropometric[r].userId # id

(***************************************************************************)
(* C21.  Deleting a patient leaves the report collection unchanged: every  *)
(* report about the deleted patient is stored afterwards as it was, is     *)
(* returned to its professional by GET /reports and GET /reports/:id and,  *)
(* if shared, by GET /reports/shared/:accessCode.                          *)
(***************************************************************************)
ReportsSurviveDelete ==
  [][(resp'.op = "DELETE /users/patients/:id" /\ resp'.status = 200)
       => /\ reports' = reports
          /\ \A r \in DOMAIN reports :
               /\ r \in ListReports(reports[r].professionalId)'.data
               /\ GetReport(reports[r].professionalId, r)' = Found({r})
               /\ reports[r].shared
                    => GetSharedReport(reports[r].accessCode)' = Found({r})
     ]_vars

\* The patient of a shared report was deleted and the report is stored.
ReportsSurviveDeleteReached ==
  /\ resp = [op |-> "DELETE /users/patients/:id", status |-> 200]
  /\ \E r \in DOMAIN reports :
       /\ reports[r].userId \notin DOMAIN users
       /\ reports[r].shared
       /\ GetSharedReport(reports[r].accessCode) = Found({r})

(***************************************************************************)
(* C22.  Profile and patient updates are all-or-nothing on the whitelist:  *)
(* a PUT /users/profile or PUT /users/patients/:id whose body has a key    *)
(* outside the route's whitelist is answered 400 INVALID_UPDATE (once the  *)
(* request is past the gates and, for a patient, the patient is found)     *)
(* and changes no field of any user, the whitelisted keys of the body      *)
(* included; no such update changes a role or a professionalId.            *)
(***************************************************************************)
WhitelistAllOrNothing ==
  /\ \A caller \in Callers, body \in UserUpdateBodies :
       ~(UserUpdateKeys(body) \subseteq ProfileAllowedUpdates)
         => /\ NoWrite(UpdateProfile(caller, body))
            /\ Authenticated(caller)
                 => UpdateProfile(caller, body) =
                      Respond(400, "INVALID_UPDATE", NoId)
  /\ \A caller \in Callers, id \in UserIds,
        body \in UserUpdateBodies :
       ~(UserUpdateKeys(body) \subseteq PatientAllowedUpdates)
         => /\ NoWrite(UpdatePatient(caller, id, body))
            /\ (GateStatus(caller, TRUE) = 0
                  /\ FindAssignedUser(id, "athlete", caller))
                 => UpdatePatient(caller, id, body) =
                      Respond(400, "INVALID_UPDATE", NoId)

\* A professional's update of their own patient was answered 400: its
\* body had the key role or professionalId beside name.
WhitelistAllOrNothingReached ==
  /\ resp = [op |-> "PUT /users/patients/:id", status |-> 400]
  /\ \E caller \in Professionals, id \in Athletes, body \in UserUpdateBodies :
       /\ FindAssignedUser(id, "athlete", caller)
       /\ body.name /\ body.role # "absent"
       /\ UpdatePatient(caller, id, body) =
            Respond(400, "INVALID_UPDATE", NoId)

(***************************************************************************)
(* C23.  Existence of out-of-scope records does not leak: a get-one,       *)
(* update or delete of a performance record, measurement, report, health   *)
(* record or patient that exists outside the caller's scope gets the       *)
(* response (and leaves the state) that the same request gets for an id    *)
(* of no document, on every build of the query layer.                      *)
(***************************************************************************)
\* The record is in the caller's scope: the caller is its professional or
\* its athlete.
InScope(record, caller) ==
  IF users[caller].role = "professional"
  THEN record.professionalId = caller
  ELSE record.userId = caller

\* The id names a document of the collection outside the caller's scope.
Hidden(collection, id, caller) ==
  id \in DOMAIN collection /\ ~InScope(collection[id], caller)

NoExistenceLeak ==
  \A caller \in DOMAIN users :
    /\ \A id \in RecIds :
         /\ Hidden(performance, id, caller)
              => /\ GetPerformance(caller, id) = GetPerformance(caller, NoId)
                 /\ DeletePerformance(caller, id)
                      = DeletePerformance(caller, NoId)
                 /\ \A body \in MeasurementBodies :
                      UpdatePerformance(caller, id, body)
                        = UpdatePerformance(caller, NoId, body)
         /\ Hidden(anthropometric, id, caller)
              => /\ \A strictQuery \in BOOLEAN :
                      GetAnthropometric(caller, id, strictQuery)
                        = GetAnthropometric(caller, NoId, strictQuery)
                 /\ DeleteAnthropometric(caller, id)
                      = DeleteAnthropometric(caller, NoId)
                 /\ \A body \in MeasurementBodies :
                      UpdateAnthropometric(caller, id, body)
                        = UpdateAnthropometric(caller, NoId, body)
         /\ Hidden(reports, id, caller)
              => /\ GetReport(caller, id) = GetReport(caller, NoId)
                 /\ DeleteReport(caller, id) = DeleteReport(caller, NoId)
         /\ (id \in DOMAIN health /\ health[id].userId # caller)
              => /\ GetHealth(caller, id) = GetHealth(caller, NoId)
                 /\ DeleteHealth(caller, id) = DeleteHealth(caller, NoId)
                 /\ \A body \in HealthBodies :
                      UpdateHealth(caller, id, body)
                        = UpdateHealth(caller, NoId, body)
    /\ \A id \in DOMAIN users :
         ~FindAssignedUser(id, "athlete", caller)
           => /\ GetPatient(caller, id) = GetPatient(caller, NoId)
              /\ DeletePatient(caller, id) = DeletePatient(caller, NoId)
              /\ \A body \in UserUpdateBodies :
                   UpdatePatient(caller, id, body)
                     = UpdatePatient(caller, NoId, body)

(***************************************************************************)
(* C24.  Patient deletion is four independent operations with no fixed     *)
(* order and no atomicity: every step of a delete writes one collection   *)
(* only, in the order the operations happen to run; so, when the process   *)
(* stops, the patient gone with records left, and the records gone with    *)
(* the patient left, are both reachable.                                   *)
(***************************************************************************)
\* The records of the collection that name the user.
RecordsOf(collection, id) ==
  {r \in DOMAIN collection : collection[r].userId = id}

PartialDeletion ==
  [][Cardinality(
       {c \in CascadeOperations :
          \/ c = "anthropometric" /\ anthropometric' # anthropometric
          \/ c = "health" /\ health' # health
          \/ c = "performance" /\ performance' # performance
          \/ c = "patient" /\ users' # users}) <= 1]_vars

\* The process has stopped; patient 3 is gone and has records left, and
\* patient 4 is left without any of the patient's records.
PartialDeletionReached ==
  /\ inflight = NoRequests
  /\ 3 \notin DOMAIN users
  /\ RecordsOf(performance, 3) # {}
  /\ 4 \in DOMAIN users
  /\ RecordsOf(performance, 4) = {}
  /\ RecordsOf(anthropometric, 4) = {}
  /\ RecordsOf(health, 4) = {}

(***************************************************************************)
(* C25.  A save the schema rejects is answered 400 and stores nothing,     *)
(* never 500: POST /users/patients with a password the request validator   *)
(* accepts and the schema rejects (and an email not in use) is answered    *)
(* 400 and creates no user.                                                *)
(***************************************************************************)
SchemaRejectionAnswered400 ==
  \A caller \in Professionals, body \in PatientBodies :
    (/\ body.passwordLength >= PatientMinPassword
     /\ body.passwordLength < SchemaMinPassword
     /\ ~EmailInUse(body.email))
      => /\ CreatePatient(caller, body).status = 400
         /\ NoWrite(CreatePatient(caller, body))

(***************************************************************************)
(* C26.  Lean mass is kept consistent on save: every stored measurement    *)
(* that has weight and bodyFatPercentage set has                           *)
(* leanMass = weight * (1 - bodyFatPercentage / 100), also when            *)
(* bodyFatPercentage is 0 and when the request body supplied a leanMass.   *)
(***************************************************************************)
LeanMassConsistent ==
  \A m \in DOMAIN anthropometric :
    (anthropometric[m].weight # Absent
       /\ anthropometric[m].bodyFatPercentage # Absent)
      => anthropometric[m].leanMass =
           (anthropometric[m].weight
              * (100 - anthropometric[m].bodyFatPercentage)) \div 100

(***************************************************************************)
(* C27.  Ownership stamps are stable under update: in every reachable      *)
(* state each performance record and each anthropometric measurement has   *)
(* the professionalId of the athlete its userId names; no PUT changes a    *)
(* record's userId or professionalId.                                      *)
(***************************************************************************)
\* The record names a stored athlete and that athlete's professional.
StampedForAthlete(record) ==
  /\ record.userId \in Athletes
  /\ record.professionalId = users[record.userId].professionalId

OwnershipStable ==
  /\ \A r \in DOMAIN performance : StampedForAthlete(performance[r])
  /\ \A m \in DOMAIN anthropometric : StampedForAthlete(anthropometric[m])

(***************************************************************************)
(* C28.  Health records are self-scoped for their whole life: the userId   *)
(* of a health record is the caller who created it and never changes, so   *)
(* no PUT /health/:id moves a record to another user, and no request       *)
(* places a record into another user's list.                               *)
(***************************************************************************)
HealthSelfScoped ==
  [][/\ \A h \in DOMAIN health \cap DOMAIN health' :
          health'[h].userId = health[h].userId
     /\ \A h \in DOMAIN health' \ DOMAIN health :
          \E caller \in DOMAIN users :
            /\ health'[h].userId = caller
            /\ h \notin ListHealth(caller).data
            /\ ListHealth(caller)'.data = ListHealth(caller).data \cup {h}
            /\ \A other \in DOMAIN users \ {caller} :
                 ListHealth(other)'.data \subseteq ListHealth(other).data
    ]_vars

=============================================================================
